---- MODULE Spec2Model ----
(***************************************************************************)
(* Model of plugins/aws/ssm/ssmSessionDuration.js: the run() function of   *)
(* the "SSM Session Duration" plugin.  run() resolves the threshold        *)
(* ssm_session_max_duration, then async.each calls the iteratee once per   *)
(* region of regions.ssm; each iteratee reads the region's describeSessions*)
(* cache entry, appends Findings to results and calls rcb(); the last      *)
(* rcb() calls the completion callback with results.                       *)
(*                                                                         *)
(* The iteratee is synchronous, so async.each visits the regions in array  *)
(* order and the whole run happens inside one JavaScript turn: the clock   *)
(* read by new Date() is modelled as one value per run.                    *)
(***************************************************************************)
EXTENDS Integers, Sequences, FiniteSets, TLC

VARIABLES
    cache,               \* region -> describeSessions cache entry (read-only input)
    settings,            \* the ssm_session_max_duration setting (read-only input)
    now,                 \* seconds since the epoch returned by new Date()
    pc,                  \* "start" | "each" | "done"
    sessionMaxDuration,  \* the resolved threshold (line 30-34)
    completed,           \* async.each: number of rcb() calls so far
    finished,            \* regions whose iteratee has called rcb()
    results,             \* var results = [] (line 23)
    callbackCalls,       \* number of calls of callback (line 78)
    delivered            \* the results argument of the last callback call

vars == <<cache, settings, now, pc, sessionMaxDuration, completed, finished,
          results, callbackCalls, delivered>>

-----------------------------------------------------------------------------
(* Bounds of the model *)

MaxSessions == 2     \* longest describeSessions.data list
MaxStrLen == 2       \* longest string value of the setting

-----------------------------------------------------------------------------
(* Inputs *)

\* helpers.regions(settings).ssm
Regions == <<"us-east-1", "us-west-2">>

RegionSet == {Regions[i] : i \in 1..Len(Regions)}

\* helpers.defaultPartition(settings) and the sts getCallerIdentity account id
awsOrGov == "aws"
accountId == "111122223333"

\* Values of new Date(), in seconds
Clocks == {1000, 1060}

\* Session records of describeSessions.data.  With now = 1000 their elapsed
\* times are 3 min 20 s, 5 min 0 s and 10 min 45 s; with now = 1060 one minute
\* more.
SessionPool ==
    { [Target |-> "i-1", StartDate |-> 800, MaxSessionDuration |-> 60],
      [Target |-> "i-1", StartDate |-> 700, MaxSessionDuration |-> 30],
      [Target |-> "i-2", StartDate |-> 355, MaxSessionDuration |-> 60] }

DataLists == UNION { [1..n -> SessionPool] : n \in 0..MaxSessions }

NoErr == ""
Errors == {NoErr, "AccessDenied"}

\* A cache entry: absent (addSource returns undefined), or an object with an
\* optional err and an optional data list.
AbsentEntry == [present |-> FALSE, err |-> NoErr, hasData |-> FALSE, data |-> <<>>]

CacheEntries ==
    {AbsentEntry}
    \cup { [present |-> TRUE, err |-> e, hasData |-> FALSE, data |-> <<>>] : e \in Errors }
    \cup { [present |-> TRUE, err |-> e, hasData |-> TRUE, data |-> d] :
              e \in Errors, d \in DataLists }

\* Characters of a string setting
StrChars == {"0", "5", "a"}
Digits == {"0", "5"}
DigitValue(c) == IF c = "5" THEN 5 ELSE 0

SettingStrings == UNION { [1..n -> StrChars] : n \in 0..MaxStrLen }

\* settings.ssm_session_max_duration: undefined, a number or a string
SettingValues ==
    { [kind |-> "absent", num |-> 0, str |-> <<>>] }
    \cup { [kind |-> "number", num |-> n, str |-> <<>>] : n \in {0, 7} }
    \cup { [kind |-> "string", num |-> 0, str |-> s] : s \in SettingStrings }

-----------------------------------------------------------------------------
(* JavaScript values of the threshold: a number or NaN *)

Num(n) == [nan |-> FALSE, val |-> n]
NaN == [nan |-> TRUE, val |-> 0]

\* if (sessionMaxDuration): 0 and NaN are falsy
Truthy(t) == ~t.nan /\ t.val # 0

\* sessionMaxDuration > activeSessionTimeInMins: false when the left side is NaN
GreaterThan(t, mins) == ~t.nan /\ t.val > mins

\* parseInt(s): the value of the longest prefix of digits, NaN when it is empty
RECURSIVE DigitPrefixValue(_, _)
DigitPrefixValue(s, acc) ==
    IF s = <<>> \/ Head(s) \notin Digits THEN acc
    ELSE DigitPrefixValue(Tail(s), acc * 10 + DigitValue(Head(s)))

parseInt(s) ==
    IF s = <<>> \/ Head(s) \notin Digits THEN NaN
    ELSE Num(DigitPrefixValue(s, 0))

\* settings.ssm.ssm_session_max_duration.default
DefaultMaxDuration == 5

\* Lines 30-34: settings.x || default, then parseInt when it is a string.
\* The result of match(regex) is ignored.
ResolveThreshold(s) ==
    LET raw == IF s.kind = "absent" \/ (s.kind = "number" /\ s.num = 0)
                  \/ (s.kind = "string" /\ s.str = <<>>)
               THEN [kind |-> "number", num |-> DefaultMaxDuration, str |-> <<>>]
               ELSE s
    IN IF raw.kind = "string" THEN parseInt(raw.str) ELSE Num(raw.num)

-----------------------------------------------------------------------------
(* Helpers of helpers/aws *)

\* helpers.minutesBetween(date1, date2): whole minutes between two dates
minutesBetween(d1, d2) ==
    LET diff == IF d1 >= d2 THEN d1 - d2 ELSE d2 - d1
    IN diff \div 60

\* helpers.addError(entry): the upstream error text of the entry
addError(entry) == IF entry.err # NoErr THEN entry.err ELSE "Unable to obtain data"

NoResource == <<>>

\* helpers.addResult(results, status, message, region, resource)
addResult(res, status, message, region, resource) ==
    Append(res, [status |-> status, message |-> message,
                 region |-> region, resource |-> resource])

-----------------------------------------------------------------------------
(* The iteratee, lines 37-76 *)

\* Messages are kept as the template chosen and the values interpolated.
UnableMessage(entry) ==
    [text |-> "Unable to query for active SSM sessions", err |-> addError(entry),
     mins |-> 0, max |-> 0]

NoSessionsMessage(entry) ==
    [text |-> "No Active SSM sessions found", err |-> addError(entry),
     mins |-> 0, max |-> 0]

\* Lines 65-66: cites the configured threshold
LessMessage(mins, t, session) ==
    [text |-> "less than", err |-> NoErr, mins |-> mins, max |-> t.val]

GreaterMessageCitesThreshold(mins, t, session) ==
    [text |-> "greater than", err |-> NoErr, mins |-> mins, max |-> t.val]

\* Lines 70-71: cites session.MaxSessionDuration
GreaterMessage(mins, t, session) ==
    [text |-> "greater than", err |-> NoErr, mins |-> mins,
     max |-> session.MaxSessionDuration]

\* Line 59
Resource(region, session) ==
    <<"arn", awsOrGov, "ec2", region, accountId, "instance", session.Target>>

\* self.findIndex((t) => t.Target === value.Target), 1-based
findIndex(self, target) ==
    CHOOSE i \in 1..Len(self) :
        /\ self[i].Target = target
        /\ \A j \in 1..(i - 1) : self[j].Target # target

IsFirstOfTarget(self, index) == index = findIndex(self, self[index].Target)

IsLastOfTarget(self, index) ==
    \A j \in (index + 1)..Len(self) : self[j].Target # self[index].Target

RECURSIVE FilterLastFrom(_, _)
FilterLastFrom(self, index) ==
    IF index > Len(self) THEN <<>>
    ELSE IF IsLastOfTarget(self, index)
         THEN <<self[index]>> \o FilterLastFrom(self, index + 1)
         ELSE FilterLastFrom(self, index + 1)

\* data.filter((value, index, self) => index === self.findIndex(...)) from index on
RECURSIVE FilterFirstFrom(_, _)
FilterFirstFrom(self, index) ==
    IF index > Len(self) THEN <<>>
    ELSE IF IsFirstOfTarget(self, index)
         THEN <<self[index]>> \o FilterFirstFrom(self, index + 1)
         ELSE FilterFirstFrom(self, index + 1)

uniqInstancesKeepLast(data) == FilterLastFrom(data, 1)

\* Lines 54-56
uniqInstances(data) == FilterFirstFrom(data, 1)

PassesGreaterOrEqual(t, mins) == ~t.nan /\ t.val >= mins

\* Line 63
Passes(t, mins) == GreaterThan(t, mins)

EnforcedUnlessZero(t) == t.nan \/ t.val # 0

\* Line 62
Enforced(t) == Truthy(t)

\* Lines 59-73: the body of the for loop for one session
EvaluateSession(res, session, region, t, clock) ==
    LET resource == Resource(region, session)
        activeSessionTimeInMins == minutesBetween(clock, session.StartDate)
    IN IF Enforced(t)
       THEN IF Passes(t, activeSessionTimeInMins)
            THEN addResult(res, 0, LessMessage(activeSessionTimeInMins, t, session),
                           region, resource)
            ELSE addResult(res, 2, GreaterMessage(activeSessionTimeInMins, t, session),
                           region, resource)
       ELSE res

\* Lines 58-74
RECURSIVE EvaluateSessions(_, _, _, _, _)
EvaluateSessions(res, sessions, region, t, clock) ==
    IF sessions = <<>> THEN res
    ELSE EvaluateSessions(EvaluateSession(res, Head(sessions), region, t, clock),
                          Tail(sessions), region, t, clock)

EvaluatedBranchNoDedup(res, entry, region, t, clock) ==
    EvaluateSessions(res, entry.data, region, t, clock)

\* Lines 54-74
EvaluatedBranch(res, entry, region, t, clock) ==
    EvaluateSessions(res, uniqInstances(entry.data), region, t, clock)

ErrorBranchDiscards(res, entry, region) ==
    addResult(<<>>, 3, UnableMessage(entry), region, NoResource)

\* Lines 43-44
ErrorBranch(res, entry, region) ==
    addResult(res, 3, UnableMessage(entry), region, NoResource)

EmptyBranchFails(res, entry, region) ==
    addResult(res, 2, NoSessionsMessage(entry), region, NoResource)

\* Lines 49-50
EmptyBranch(res, entry, region) ==
    addResult(res, 0, NoSessionsMessage(entry), region, NoResource)

AbsentBranchReports(res, entry, region) ==
    addResult(res, 3, UnableMessage(entry), region, NoResource)

\* Line 40: return rcb() without a result
AbsentBranch(res, entry, region) == res

\* Line 40: !describeSessions
IsAbsent(entry) == ~entry.present

IsErroredOnlyWithoutData(entry) == entry.present /\ ~entry.hasData

\* Line 42: describeSessions.err || !describeSessions.data
IsErrored(entry) == entry.present /\ (entry.err # NoErr \/ ~entry.hasData)

-----------------------------------------------------------------------------
(* async.each: the regions in array order, the callback after the last rcb() *)

AllDoneAfterFirst(n) == n >= 1

\* async.each: completed === length
AllDone(n) == n = Len(Regions)

\* The region of the next iteratee call
CurrentRegion == Regions[completed + 1]

\* rcb(): counts the region and, when it is the last, calls
\* callback(null, results, source) with the results as just updated (line 78)
Rcb(region, newResults) ==
    /\ results' = newResults
    /\ completed' = completed + 1
    /\ finished' = finished \cup {region}
    /\ IF AllDone(completed + 1)
       THEN /\ callbackCalls' = callbackCalls + 1
            /\ delivered' = newResults
            /\ pc' = "done"
       ELSE UNCHANGED <<callbackCalls, delivered, pc>>
    /\ UNCHANGED <<cache, settings, now, sessionMaxDuration>>

-----------------------------------------------------------------------------
(* The state machine *)

Init ==
    /\ cache \in [RegionSet -> CacheEntries]
    /\ settings \in SettingValues
    /\ now \in Clocks
    /\ pc = "start"
    /\ sessionMaxDuration = Num(0)
    /\ completed = 0
    /\ finished = {}
    /\ results = <<>>
    /\ callbackCalls = 0
    /\ delivered = <<>>

\* Lines 23-34: run() up to the call of async.each
Run ==
    /\ pc = "start"
    /\ sessionMaxDuration' = ResolveThreshold(settings)
    /\ results' = <<>>
    /\ pc' = "each"
    /\ UNCHANGED <<cache, settings, now, completed, finished, callbackCalls, delivered>>

\* Lines 37-40
RegionAbsent ==
    /\ pc = "each"
    /\ LET region == CurrentRegion
           describeSessions == cache[region]
       IN /\ IsAbsent(describeSessions)
          /\ Rcb(region, AbsentBranch(results, describeSessions, region))

\* Lines 42-46
RegionError ==
    /\ pc = "each"
    /\ LET region == CurrentRegion
           describeSessions == cache[region]
       IN /\ ~IsAbsent(describeSessions)
          /\ IsErrored(describeSessions)
          /\ Rcb(region, ErrorBranch(results, describeSessions, region))

\* Lines 48-52
RegionEmpty ==
    /\ pc = "each"
    /\ LET region == CurrentRegion
           describeSessions == cache[region]
       IN /\ ~IsAbsent(describeSessions)
          /\ ~IsErrored(describeSessions)
          /\ Len(describeSessions.data) = 0
          /\ Rcb(region, EmptyBranch(results, describeSessions, region))

\* Lines 54-76
RegionEvaluate ==
    /\ pc = "each"
    /\ LET region == CurrentRegion
           describeSessions == cache[region]
       IN /\ ~IsAbsent(describeSessions)
          /\ ~IsErrored(describeSessions)
          /\ Len(describeSessions.data) # 0
          /\ Rcb(region, EvaluatedBranch(results, describeSessions, region,
                                         sessionMaxDuration, now))

Next == Run \/ RegionAbsent \/ RegionError \/ RegionEmpty \/ RegionEvaluate

Spec == Init /\ [][Next]_vars

-----------------------------------------------------------------------------
(* Vocabulary of the properties *)

\* The Findings of one region, in the order they were appended
FindingsOf(res, region) == SelectSeq(res, LAMBDA f : f.region = region)

IsResourceLevel(f) == f.resource # NoResource
IsRegionLevel(f) == f.resource = NoResource

Targets(data) == {data[i].Target : i \in 1..Len(data)}

\* Indices of the records that are the first of their Target
FirstIndices(data) ==
    {i \in 1..Len(data) : \A j \in 1..(i - 1) : data[j].Target # data[i].Target}

\* The k-th record, in input order, among the first records of each Target
KthFirst(data, k) ==
    data[CHOOSE i \in FirstIndices(data) :
            Cardinality({j \in FirstIndices(data) : j < i}) = k - 1]

\* The elapsed minutes of a session at the time of the run
ElapsedMinutes(session) == minutesBetween(now, session.StartDate)

HasSessions(entry) == entry.present /\ entry.hasData /\ Len(entry.data) > 0

\* The region went through per-session evaluation
WasEvaluated(r) == r \in finished /\ HasSessions(cache[r]) /\ cache[r].err = NoErr

ThresholdConfigured == ~sessionMaxDuration.nan /\ sessionMaxDuration.val # 0

-----------------------------------------------------------------------------
(* C1 *)

NoMixedLevels ==
    \A r \in RegionSet :
        LET fs == FindingsOf(results, r)
        IN ~(\E i, j \in 1..Len(fs) : IsRegionLevel(fs[i]) /\ IsResourceLevel(fs[j]))

OnePerTarget(r) ==
    LET fs == FindingsOf(results, r)
        data == cache[r].data
    IN /\ Len(fs) = Cardinality(Targets(data))
       /\ \A i \in 1..Len(fs) : IsResourceLevel(fs[i])
       /\ \A tg \in Targets(data) :
             Cardinality({i \in 1..Len(fs) :
                             fs[i].resource = Resource(r, [Target |-> tg])}) = 1

\* C1 as stated: in every state, every region whose iteratee has run and whose
\* entry has non-empty data with N distinct Targets holds, when a threshold is
\* configured, exactly N Findings, one per distinct Target and each with a
\* resource; and no region has both a region-level and a resource-level Finding.
C1_AsStated ==
    /\ NoMixedLevels
    /\ \A r \in finished :
          (HasSessions(cache[r]) /\ ThresholdConfigured) => OnePerTarget(r)

\* C1 amended: the same, for entries that carry no err; an entry that carries
\* both err and sessions yields the single region-level Finding instead.
C1_OnePerTargetUnlessErrored ==
    /\ NoMixedLevels
    /\ \A r \in finished :
          (HasSessions(cache[r]) /\ cache[r].err = NoErr /\ ThresholdConfigured)
             => OnePerTarget(r)

\* One region with two records of one Target produced one Finding, another
\* with two Targets produced two
C1_Witness ==
    /\ ThresholdConfigured
    /\ \E r \in finished :
          /\ WasEvaluated(r)
          /\ Len(cache[r].data) = 2
          /\ Cardinality(Targets(cache[r].data)) = 1
          /\ Len(FindingsOf(results, r)) = 1
    /\ \E r \in finished :
          /\ WasEvaluated(r)
          /\ Cardinality(Targets(cache[r].data)) = 2
          /\ Len(FindingsOf(results, r)) = 2

-----------------------------------------------------------------------------
(* C2 *)

\* The number of Findings a region's entry calls for
ExpectedCount(r) ==
    IF ~cache[r].present THEN 0
    ELSE IF cache[r].err # NoErr \/ ~HasSessions(cache[r]) THEN 1
    ELSE IF ThresholdConfigured THEN Cardinality(Targets(cache[r].data))
    ELSE 0

\* C2: the callback has been called exactly once when every region's iteratee
\* has finished and not at all before; when it is called every region of
\* regions.ssm has finished and it receives the whole of results.
C2_CallbackOnceAfterAllRegions ==
    /\ callbackCalls = (IF finished = RegionSet THEN 1 ELSE 0)
    /\ (pc = "done") <=> (callbackCalls = 1)
    /\ callbackCalls = 1 =>
          /\ completed = Len(Regions)
          /\ delivered = results
          /\ \A r \in RegionSet :
                Len(FindingsOf(delivered, r)) = ExpectedCount(r)
          /\ Len(delivered) = ExpectedCount(Regions[1]) + ExpectedCount(Regions[2])

\* The callback received Findings of both regions
C2_Witness ==
    /\ callbackCalls = 1
    /\ \A r \in RegionSet : Len(FindingsOf(delivered, r)) >= 1
    /\ Len(delivered) >= 3

-----------------------------------------------------------------------------
(* C3 *)

\* C3: a finished region whose entry is present and carries err or has no data
\* has exactly one Finding, of status 3 (UNKNOWN), without resource, whose
\* message carries the entry's err text when there is one.
C3_ErroredRegionOneUnknown ==
    \A r \in finished :
        (cache[r].present /\ (cache[r].err # NoErr \/ ~cache[r].hasData)) =>
            LET fs == FindingsOf(results, r)
            IN /\ Len(fs) = 1
               /\ fs[1].status = 3
               /\ IsRegionLevel(fs[1])
               /\ fs[1].message.text = "Unable to query for active SSM sessions"
               /\ cache[r].err # NoErr => fs[1].message.err = cache[r].err

\* An entry with err "AccessDenied" that also holds sessions was reported
C3_Witness ==
    \E r \in finished :
        /\ cache[r].err = "AccessDenied"
        /\ HasSessions(cache[r])
        /\ ThresholdConfigured
        /\ Len(FindingsOf(results, r)) = 1
        /\ FindingsOf(results, r)[1].message.err = "AccessDenied"

-----------------------------------------------------------------------------
(* C4 *)

\* C4: under a configured threshold T, the Finding of every deduplicated
\* session of an evaluated region has status 0 (OK) when T > elapsedMinutes and
\* status 2 (FAIL) otherwise, elapsedMinutes == T included.
C4_PassIffThresholdGreater ==
    \A r \in finished :
        (WasEvaluated(r) /\ ThresholdConfigured) =>
            LET fs == FindingsOf(results, r)
            IN /\ Len(fs) = Cardinality(FirstIndices(cache[r].data))
               /\ \A k \in 1..Len(fs) :
                     LET mins == ElapsedMinutes(KthFirst(cache[r].data, k))
                     IN fs[k].status =
                           (IF sessionMaxDuration.val > mins THEN 0 ELSE 2)

\* A session whose elapsed minutes equal the threshold was classified FAIL,
\* and a shorter session of the other region passed
C4_Witness ==
    /\ ThresholdConfigured
    /\ \E r \in finished :
          /\ WasEvaluated(r)
          /\ \E k \in 1..Len(FindingsOf(results, r)) :
                /\ ElapsedMinutes(KthFirst(cache[r].data, k)) = sessionMaxDuration.val
                /\ FindingsOf(results, r)[k].status = 2
    /\ \E r \in finished :
          /\ WasEvaluated(r)
          /\ \E k \in 1..Len(FindingsOf(results, r)) :
                /\ ElapsedMinutes(KthFirst(cache[r].data, k)) < sessionMaxDuration.val
                /\ FindingsOf(results, r)[k].status = 0

-----------------------------------------------------------------------------
(* C5 *)

\* C5: the Findings of an evaluated region are those of the first record of
\* each distinct Target, in input order: the k-th Finding names the Target of
\* the k-th such record and carries that record's elapsed minutes and
\* classification.
C5_FirstRecordPerTarget ==
    \A r \in finished :
        (WasEvaluated(r) /\ ThresholdConfigured) =>
            LET fs == FindingsOf(results, r)
                data == cache[r].data
            IN /\ Len(fs) = Cardinality(FirstIndices(data))
               /\ \A k \in 1..Len(fs) :
                     LET rec == KthFirst(data, k)
                     IN /\ fs[k].resource = Resource(r, rec)
                        /\ fs[k].message.mins = ElapsedMinutes(rec)
                        /\ (fs[k].status = 0) <=>
                              (sessionMaxDuration.val > ElapsedMinutes(rec))

\* Two records of one Target with different start dates, the first passing and
\* the second not, produced one Finding, OK
C5_Witness ==
    \E r \in finished :
        /\ WasEvaluated(r) /\ ThresholdConfigured
        /\ Len(cache[r].data) = 2
        /\ cache[r].data[1].Target = cache[r].data[2].Target
        /\ cache[r].data[1].StartDate # cache[r].data[2].StartDate
        /\ sessionMaxDuration.val > ElapsedMinutes(cache[r].data[1])
        /\ sessionMaxDuration.val <= ElapsedMinutes(cache[r].data[2])
        /\ Len(FindingsOf(results, r)) = 1
        /\ FindingsOf(results, r)[1].status = 0

-----------------------------------------------------------------------------
(* C6 *)

\* C6 as stated: when the resolved threshold is not a number, every evaluated
\* region holds one FAIL Finding per distinct Target.
C6_AsStated ==
    \A r \in finished :
        (WasEvaluated(r) /\ sessionMaxDuration.nan) =>
            LET fs == FindingsOf(results, r)
            IN /\ Len(fs) = Cardinality(Targets(cache[r].data))
               /\ \A k \in 1..Len(fs) : fs[k].status = 2 /\ IsResourceLevel(fs[k])

\* C6 amended: when the setting is a string without leading digits, the
\* resolved threshold is not a number and an evaluated region holds no Finding
\* at all, whatever the elapsed times of its sessions.
C6_NaNThresholdEmitsNothing ==
    /\ (pc # "start" /\ settings.kind = "string" /\ settings.str # <<>>
           /\ Head(settings.str) \notin Digits) => sessionMaxDuration.nan
    /\ \A r \in finished :
          (WasEvaluated(r) /\ sessionMaxDuration.nan) =>
              FindingsOf(results, r) = <<>>

\* A region with sessions of two Targets was evaluated under the setting "a5"
C6_Witness ==
    /\ settings.kind = "string" /\ settings.str = <<"a", "5">>
    /\ sessionMaxDuration.nan
    /\ \E r \in finished :
          /\ WasEvaluated(r)
          /\ Cardinality(Targets(cache[r].data)) = 2
          /\ FindingsOf(results, r) = <<>>

-----------------------------------------------------------------------------
(* C7 *)

\* C7: in an evaluated region the message of a FAIL Finding cites the
\* MaxSessionDuration of its session, the message of an OK Finding cites the
\* configured threshold, and both state the session's elapsed minutes.
C7_FailCitesSessionMax ==
    \A r \in finished :
        (WasEvaluated(r) /\ ThresholdConfigured) =>
            LET fs == FindingsOf(results, r)
            IN /\ Len(fs) = Cardinality(FirstIndices(cache[r].data))
               /\ \A k \in 1..Len(fs) :
                     LET rec == KthFirst(cache[r].data, k)
                     IN /\ fs[k].message.mins = ElapsedMinutes(rec)
                        /\ fs[k].status = 2 =>
                              /\ fs[k].message.text = "greater than"
                              /\ fs[k].message.max = rec.MaxSessionDuration
                        /\ fs[k].status = 0 =>
                              /\ fs[k].message.text = "less than"
                              /\ fs[k].message.max = sessionMaxDuration.val

\* Threshold 5, a session of 10 elapsed minutes and MaxSessionDuration 60: the
\* FAIL message cites 60
C7_Witness ==
    /\ sessionMaxDuration = Num(5)
    /\ \E i \in 1..Len(results) :
          /\ results[i].status = 2
          /\ results[i].message.mins = 10
          /\ results[i].message.max = 60
    /\ \E i \in 1..Len(results) :
          /\ results[i].status = 0
          /\ results[i].message.max = 5

-----------------------------------------------------------------------------
(* C8 *)

\* C8: a region whose entry is absent has no Finding in results at any time,
\* and it is among the finished regions when the callback is called, which
\* receives no Finding for it.
C8_AbsentRegionSilent ==
    \A r \in RegionSet :
        ~cache[r].present =>
            /\ FindingsOf(results, r) = <<>>
            /\ callbackCalls = 1 =>
                  /\ r \in finished
                  /\ FindingsOf(delivered, r) = <<>>

\* The first region was absent, the second produced Findings, and the callback
\* was called
C8_Witness ==
    /\ callbackCalls = 1
    /\ ~cache[Regions[1]].present
    /\ Regions[1] \in finished
    /\ Len(delivered) >= 2

-----------------------------------------------------------------------------
(* C9 *)

\* C9: a finished region whose entry is present, carries no err and has data
\* of length zero has exactly one Finding, of status 0 (OK), without resource.
C9_EmptyRegionOneOk ==
    \A r \in finished :
        (cache[r].present /\ cache[r].err = NoErr /\ cache[r].hasData
            /\ Len(cache[r].data) = 0) =>
            LET fs == FindingsOf(results, r)
            IN /\ Len(fs) = 1
               /\ fs[1].status = 0
               /\ IsRegionLevel(fs[1])
               /\ fs[1].message.text = "No Active SSM sessions found"

\* An empty region was reported
C9_Witness ==
    \E r \in finished :
        /\ cache[r].present /\ cache[r].err = NoErr /\ cache[r].hasData
        /\ Len(cache[r].data) = 0
        /\ Len(FindingsOf(results, r)) = 1

-----------------------------------------------------------------------------
(* C10 *)

\* The Findings of region r when it is the only region evaluated
Alone(r) ==
    LET entry == cache[r]
    IN IF ~entry.present THEN <<>>
       ELSE IF entry.err # NoErr \/ ~entry.hasData
            THEN <<[status |-> 3, message |-> UnableMessage(entry),
                    region |-> r, resource |-> NoResource]>>
       ELSE IF Len(entry.data) = 0
            THEN <<[status |-> 0, message |-> NoSessionsMessage(entry),
                    region |-> r, resource |-> NoResource]>>
       ELSE EvaluatedBranch(<<>>, entry, r, sessionMaxDuration, now)

\* C10: whatever the entries of the other regions, every finished region's
\* Findings in results are those of the region evaluated alone, so are the
\* Findings the callback receives, and the run never stops before the
\* callback is called.
C10_RegionsIndependent ==
    /\ \A r \in finished : FindingsOf(results, r) = Alone(r)
    /\ \A r \in RegionSet \ finished : FindingsOf(results, r) = <<>>
    /\ callbackCalls = 1 =>
          \A r \in RegionSet : FindingsOf(delivered, r) = Alone(r)
    /\ callbackCalls = 0 => ENABLED Next

\* The first region produced resource-level Findings, the second was errored,
\* and the callback received both
C10_Witness ==
    /\ callbackCalls = 1
    /\ WasEvaluated(Regions[1])
    /\ Len(FindingsOf(delivered, Regions[1])) = 2
    /\ cache[Regions[2]].err = "AccessDenied"
    /\ Len(FindingsOf(delivered, Regions[2])) = 1

====
